---------------------------- MODULE Spec2Model ----------------------------
(***************************************************************************)
(* Model of ai_agent_toolkit.py: the four tools (TokenOptimizer,           *)
(* MultiModalEnhancer, APIMockGenerator, CodeCompletionAssistant) and the  *)
(* facade AIAgentToolkit that registers and dispatches to them.            *)
(*                                                                         *)
(* A Python str is a sequence of Unicode code points (naturals); a dict is *)
(* a sequence of <<key, value>> pairs with distinct keys, in insertion     *)
(* order.  Identifiers (tool names, method names, keyword names) are TLA+  *)
(* strings: the code only compares them for equality.                      *)
(***************************************************************************)
EXTENDS Integers, Sequences, FiniteSets, TLC

VARIABLES
    usage_stats,        \* TokenOptimizer.usage_stats
    SUPPORTED_FORMATS,  \* MultiModalEnhancer.SUPPORTED_FORMATS
    mock_templates,     \* APIMockGenerator.mock_templates
    PYTHON_SNIPPETS,    \* CodeCompletionAssistant.PYTHON_SNIPPETS
    tools,              \* AIAgentToolkit.tools
    op,                 \* the operation of the call made, "idle" between calls
    call,               \* the arguments of the last call
    raised,             \* the exception the last call raised, or "none"
    ran,                \* the tool operation the last call executed, or "none"
    result              \* what the last call returned: [kind, v]

vars == <<usage_stats, SUPPORTED_FORMATS, mock_templates, PYTHON_SNIPPETS, tools,
          op, call, raised, ran, result>>

toolkit == <<usage_stats, SUPPORTED_FORMATS, mock_templates, PYTHON_SNIPPETS, tools>>

---------------------------------------------------------------------------
(* Bounds of the inputs.                                                   *)

\* a text is the concatenation of at most MaxPieces pieces
MaxPieces == 3
\* a counted text has at most MaxCount CJK and at most MaxCount other characters
MaxCount == 12
\* a methods mapping of a document has at most MaxKeys keys
MaxKeys == 2
\* a rendered server has at most MaxEndpoints endpoints
MaxEndpoints == 2

---------------------------------------------------------------------------
(* Python built-ins the code uses.                                         *)

\* str.isspace of one character: what str.split() with no argument splits on
IsSpace(c) ==
    c \in (9..13) \cup (28..32) \cup {133, 160, 5760} \cup (8192..8202)
          \cup {8232, 8233, 8239, 8287, 12288}

RECURSIVE SkipSpace(_)
SkipSpace(s) ==
    IF s = <<>> \/ ~IsSpace(Head(s)) THEN s ELSE SkipSpace(Tail(s))

RECURSIVE TakeWord(_)
TakeWord(s) ==
    IF s = <<>> \/ IsSpace(Head(s)) THEN <<>> ELSE <<Head(s)>> \o TakeWord(Tail(s))

\* str.split(): the maximal runs of non-whitespace characters, in order
RECURSIVE split(_)
split(s) ==
    LET t == SkipSpace(s)
        w == TakeWord(t)
    IN IF t = <<>> THEN <<>>
       ELSE <<w>> \o split(SubSeq(t, Len(w) + 1, Len(t)))

\* sep.join(words)
RECURSIVE join(_, _)
join(sep, words) ==
    IF words = <<>> THEN <<>>
    ELSE IF Len(words) = 1 THEN words[1]
    ELSE words[1] \o sep \o join(sep, Tail(words))

\* s.startswith(p)
startswith(s, p) == Len(p) <= Len(s) /\ SubSeq(s, 1, Len(p)) = p

\* s.replace(old, new) for a non-empty old: leftmost non-overlapping occurrences
RECURSIVE replace(_, _, _)
replace(s, old, new) ==
    IF Len(s) < Len(old) THEN s
    ELSE IF startswith(s, old)
         THEN new \o replace(SubSeq(s, Len(old) + 1, Len(s)), old, new)
         ELSE <<Head(s)>> \o replace(Tail(s), old, new)

\* sub in s
RECURSIVE contains(_, _)
contains(s, sub) ==
    IF Len(s) < Len(sub) THEN FALSE
    ELSE startswith(s, sub) \/ contains(Tail(s), sub)

\* str.lower() and str.upper() on the ASCII letters
lower(s) == [i \in 1..Len(s) |-> IF s[i] \in 65..90 THEN s[i] + 32 ELSE s[i]]
upper(s) == [i \in 1..Len(s) |-> IF s[i] \in 97..122 THEN s[i] - 32 ELSE s[i]]

\* s.lstrip(chars) for a single character
RECURSIVE lstrip(_, _)
lstrip(s, c) == IF s # <<>> /\ Head(s) = c THEN lstrip(Tail(s), c) ELSE s

\* dict operations on a sequence of <<key, value>> pairs
keys(d) == [i \in 1..Len(d) |-> d[i][1]]
has_key(d, k) == \E i \in 1..Len(d) : d[i][1] = k
get(d, k, default) ==
    IF has_key(d, k) THEN d[CHOOSE i \in 1..Len(d) : d[i][1] = k][2] ELSE default

---------------------------------------------------------------------------
(* IEEE 754 binary64 arithmetic on the non-negative values the token       *)
(* estimate computes.  A double is the triple <<h, m, l>> of 24-bit limbs  *)
(* h * 2^48 + m * 2^24 + l counting units of 2^-54, the unit in the last   *)
(* place of 0.3; every operation rounds to 53 significant bits, ties to    *)
(* even, as the hardware does.                                             *)

Limb == 2^24

\* the double nearest to 0.3: 0x13333333333333 * 2^-54
Float0_3 == <<19, 3355443, 3355443>>
\* 1.5 = 3 * 2^53 * 2^-54, exactly
Float1_5 == <<96, 0, 0>>

Carry(t) ==
    LET m1 == t[2] + (t[3] \div Limb)
    IN <<t[1] + (m1 \div Limb), m1 % Limb, t[3] % Limb>>

RECURSIVE BitLen(_)
BitLen(n) == IF n = 0 THEN 0 ELSE 1 + BitLen(n \div 2)

\* round to 53 significant bits, ties to even
Round53(t) ==
    LET s == BitLen(t[1]) - 5
    IN IF s <= 0 THEN t
       ELSE LET q == t[3] \div (2^s)
                r == t[3] % (2^s)
                up == IF r > 2^(s-1) \/ (r = 2^(s-1) /\ q % 2 = 1) THEN 1 ELSE 0
            IN Carry(<<t[1], t[2], (q + up) * (2^s)>>)

\* n * d for a small natural n (converted exactly) and a double d
FloatMul(n, d) == Round53(Carry(<<n * d[1], n * d[2], n * d[3]>>))

FloatAdd(a, b) == Round53(Carry(<<a[1] + b[1], a[2] + b[2], a[3] + b[3]>>))

\* int(d): truncation toward zero
FloatToInt(d) == d[1] \div 64

---------------------------------------------------------------------------
(* TokenOptimizer                                                          *)

TokenOptimizer_init ==
    [total_input_tokens |-> 0, total_output_tokens |-> 0, total_calls |-> 0]

\* the replacements dict of optimize_prompt, in insertion order:
\* three CJK filler phrases, each replaced by the empty string
replacements ==
    << <<(* "\u8bf7\u5e2e\u52a9\u6211" *) <<35831, 24110, 21161, 25105>>, <<>> >>,
       <<(* "\u4f60\u80fd" *) <<20320, 33021>>, <<>> >>,
       <<(* "\u6211\u9700\u8981" *) <<25105, 38656, 35201>>, <<>> >> >>

RECURSIVE ApplyReplacements(_, _)
ApplyReplacements(optimized, rs) ==
    IF rs = <<>> THEN optimized
    ELSE ApplyReplacements(replace(optimized, rs[1][1], rs[1][2]), Tail(rs))

optimize_prompt(prompt) ==
    LET optimized == join(<<32>>, split(prompt))
    IN ApplyReplacements(optimized, replacements)

\* estimate_tokens with the estimate rounded to nearest, not truncated
estimate_tokens_rounded(text) ==
    LET chinese_chars == Len(SelectSeq(text, LAMBDA c : 19968 <= c /\ c <= 40959))
        other_chars == Len(text) - chinese_chars
        estimated == FloatAdd(FloatMul(chinese_chars, Float1_5),
                              FloatMul(other_chars, Float0_3))
    IN FloatToInt(FloatAdd(estimated, <<32, 0, 0>>))

estimate_tokens(text) ==
    LET chinese_chars == Len(SelectSeq(text, LAMBDA c : 19968 <= c /\ c <= 40959))
        other_chars == Len(text) - chinese_chars
        estimated == FloatAdd(FloatMul(chinese_chars, Float1_5),
                              FloatMul(other_chars, Float0_3))
    IN FloatToInt(estimated)

---------------------------------------------------------------------------
(* MultiModalEnhancer                                                      *)

SUPPORTED_FORMATS_init ==
    << <<"image", <<(* "jpg" *) <<106, 112, 103>>, (* "jpeg" *) <<106, 112, 101, 103>>,
            (* "png" *) <<112, 110, 103>>, (* "gif" *) <<103, 105, 102>>, (* "webp" *) <<119, 101,
            98, 112>>>> >>,
       <<"audio", <<(* "mp3" *) <<109, 112, 51>>, (* "wav" *) <<119, 97, 118>>, (* "ogg" *) <<111,
               103, 103>>, (* "aac" *) <<97, 97, 99>>>> >>,
       <<"video", <<(* "mp4" *) <<109, 112, 52>>, (* "webm" *) <<119, 101, 98, 109>>,
               (* "avi" *) <<97, 118, 105>>, (* "mov" *) <<109, 111, 118>>>> >> >>

\* the value None
None == "None"

\* Path(name).suffix for a one-component name: from the last dot on, when that
\* dot is neither the first nor the last character
suffix(name) ==
    LET dots == {i \in 1..Len(name) : name[i] = 46}
        last == CHOOSE i \in dots : \A j \in dots : j <= i
    IN IF dots = {} \/ last = 1 \/ last = Len(name) THEN <<>>
       ELSE SubSeq(name, last, Len(name))

\* str(Path(name)) for a one-component name
str_path(name) == IF name = <<>> THEN <<46>> ELSE name

RECURSIVE FirstModality(_, _)
FirstModality(items, ext) ==
    IF items = <<>> THEN None
    ELSE IF \E i \in 1..Len(items[1][2]) : items[1][2][i] = ext THEN items[1][1]
    ELSE FirstModality(Tail(items), ext)

detect_modality(file_path) ==
    LET ext == lstrip(lower(suffix(file_path)), 46)
    IN FirstModality(SUPPORTED_FORMATS, ext)

analyze_image(image_path) ==
    [type |-> "image",
     path |-> str_path(image_path),
     analysis |-> [detected_objects |-> <<"screenshot", "code", "documentation">>,
                   text_regions |-> 3,
                   dominant_colors |-> <<"#ffffff", "#282c34">>]]

\* the float 45.6 is kept as its literal
extract_audio_features(audio_path) ==
    [type |-> "audio",
     path |-> str_path(audio_path),
     features |-> [duration |-> "45.6",
                   sampling_rate |-> 44100,
                   detected_speech |-> TRUE,
                   language |-> "zh-CN"]]

---------------------------------------------------------------------------
(* APIMockGenerator                                                        *)

APIMockGenerator_init == <<>>

method_names == <<(* "get" *) <<103, 101, 116>>, (* "post" *) <<112, 111, 115, 116>>,
        (* "put" *) <<112, 117, 116>>, (* "delete" *) <<100, 101, 108, 101, 116, 101>>>>

RECURSIVE EndpointsOfPath(_, _, _)
EndpointsOfPath(path, methods, names) ==
    IF names = <<>> THEN <<>>
    ELSE LET method == names[1]
             endpoint_spec == get(methods, method, <<>>)
         IN (IF has_key(methods, method)
             THEN << [path |-> path,
                      method |-> upper(method),
                      summary |-> get(endpoint_spec, "summary", <<>>),
                      responses |-> get(endpoint_spec, "responses", <<>>)] >>
             ELSE <<>>)
            \o EndpointsOfPath(path, methods, Tail(names))

RECURSIVE EndpointsOfPaths(_)
EndpointsOfPaths(paths) ==
    IF paths = <<>> THEN <<>>
    ELSE EndpointsOfPath(paths[1][1], paths[1][2], method_names)
         \o EndpointsOfPaths(Tail(paths))

\* parse_openapi taking the methods of a path in the order of the document
RECURSIVE EndpointsInDocumentOrder(_)
EndpointsInDocumentOrder(paths) ==
    IF paths = <<>> THEN <<>>
    ELSE EndpointsOfPath(paths[1][1], paths[1][2],
                         SelectSeq(keys(paths[1][2]),
                                   LAMBDA k : \E i \in 1..Len(method_names) :
                                                  method_names[i] = k))
         \o EndpointsInDocumentOrder(Tail(paths))

parse_openapi_document_order(openapi_spec) ==
    EndpointsInDocumentOrder(get(openapi_spec, "paths", <<>>))

parse_openapi(openapi_spec) == EndpointsOfPaths(get(openapi_spec, "paths", <<>>))

\* the decimal digits of n, zero-padded to width w
RECURSIVE Pad(_, _)
Pad(n, w) == IF w = 0 THEN <<>> ELSE Pad(n \div 10, w - 1) \o <<48 + (n % 10)>>

\* datetime.isoformat(): YYYY-MM-DDTHH:MM:SS, then .ffffff unless the
\* microsecond is 0
isoformat(dt) ==
    Pad(dt.year, 4) \o (* "-" *) <<45>> \o Pad(dt.month, 2) \o (* "-" *) <<45>> \o Pad(dt.day,
            2) \o (* "T" *) <<84>>
    \o Pad(dt.hour, 2) \o (* ":" *) <<58>> \o Pad(dt.minute,
            2) \o (* ":" *) <<58>> \o Pad(dt.second, 2)
    \o (IF dt.microsecond = 0 THEN <<>> ELSE (* "." *) <<46>> \o Pad(dt.microsecond, 6))

\* now is the value datetime.now() returns during the call
generate_mock_code(endpoint, now) ==
    (* "\n@app.route(\"" *) <<10, 64, 97, 112, 112, 46, 114, 111, 117, 116, 101, 40,
            34>> \o endpoint.path \o (* "\", methods=[\"" *) <<34, 44, 32, 109, 101, 116, 104, 111,
            100, 115, 61, 91, 34>> \o endpoint.method
    \o (* "\"])\ndef mock_" *) <<34, 93, 41, 10, 100, 101, 102, 32, 109, 111, 99, 107,
            95>> \o lower(endpoint.method)
    \o replace(endpoint.path, (* "/" *) <<47>>, (* "_" *) <<95>>)
    \o (* "():\n    \"\"\"" *) <<40, 41, 58, 10, 32, 32, 32, 32, 34, 34, 34>> \o endpoint.summary
    \o (* "\"\"\"\n    return {\n        \"success\": True,\n        \"message\": \"Mock response for " *) <<34,
            34, 34, 10, 32, 32, 32, 32, 114, 101, 116, 117, 114, 110, 32, 123, 10, 32, 32, 32, 32,
            32, 32, 32, 32, 34, 115, 117, 99, 99, 101, 115, 115, 34, 58, 32, 84, 114, 117, 101, 44,
            10, 32, 32, 32, 32, 32, 32, 32, 32, 34, 109, 101, 115, 115, 97, 103, 101, 34, 58, 32,
            34, 77, 111, 99, 107, 32, 114, 101, 115, 112, 111, 110, 115, 101, 32, 102, 111, 114,
            32>>
    \o endpoint.method \o (* " " *) <<32>> \o endpoint.path
    \o (* "\",\n        \"data\": {\n            \"id\": \"mock_id_123\",\n            \"timestamp\": \"" *) <<34,
            44, 10, 32, 32, 32, 32, 32, 32, 32, 32, 34, 100, 97, 116, 97, 34, 58, 32, 123, 10, 32,
            32, 32, 32, 32, 32, 32, 32, 32, 32, 32, 32, 34, 105, 100, 34, 58, 32, 34, 109, 111, 99,
            107, 95, 105, 100, 95, 49, 50, 51, 34, 44, 10, 32, 32, 32, 32, 32, 32, 32, 32, 32, 32,
            32, 32, 34, 116, 105, 109, 101, 115, 116, 97, 109, 112, 34, 58, 32, 34>>
    \o isoformat(now) \o (* "\"\n        }\n    }\n" *) <<34, 10, 32, 32, 32, 32, 32, 32, 32, 32,
            125, 10, 32, 32, 32, 32, 125, 10>>

server_preamble ==
    (* "# AI\u751f\u6210\u7684Mock\u670d\u52a1\u5668\nfrom flask import Flask,
            jsonify\n\napp = Flask(__name__)\n\n" *) <<35, 32, 65, 73, 29983, 25104, 30340, 77,
            111, 99, 107, 26381, 21153, 22120, 10, 102, 114, 111, 109, 32, 102, 108, 97, 115, 107,
            32, 105, 109, 112, 111, 114, 116, 32, 70, 108, 97, 115, 107, 44, 32, 106, 115, 111,
            110, 105, 102, 121, 10, 10, 97, 112, 112, 32, 61, 32, 70, 108, 97, 115, 107, 40, 95,
            95, 110, 97, 109, 101, 95, 95, 41, 10, 10>>

server_epilogue ==
    (* "\nif __name__ == \"__main__\":\n    print(\"\ud83d\ude80 Mock Server starting on port 5000\")\n    app.run(port=5000)\n" *) <<10,
            105, 102, 32, 95, 95, 110, 97, 109, 101, 95, 95, 32, 61, 61, 32, 34, 95, 95, 109, 97,
            105, 110, 95, 95, 34, 58, 10, 32, 32, 32, 32, 112, 114, 105, 110, 116, 40, 34, 128640,
            32, 77, 111, 99, 107, 32, 83, 101, 114, 118, 101, 114, 32, 115, 116, 97, 114, 116, 105,
            110, 103, 32, 111, 110, 32, 112, 111, 114, 116, 32, 53, 48, 48, 48, 34, 41, 10, 32, 32,
            32, 32, 97, 112, 112, 46, 114, 117, 110, 40, 112, 111, 114, 116, 61, 53, 48, 48, 48,
            41, 10>>

\* generate_mock_server without the line break appended after each route
RECURSIVE AppendRoutesOnly(_, _, _)
AppendRoutesOnly(code, endpoints, nows) ==
    IF endpoints = <<>> THEN code
    ELSE AppendRoutesOnly(code \o generate_mock_code(endpoints[1], nows[1]),
                          Tail(endpoints), Tail(nows))

generate_mock_server_unseparated(endpoints, nows) ==
    AppendRoutesOnly(server_preamble, endpoints, nows) \o server_epilogue

\* the loop of generate_mock_server; nows[i] is what datetime.now() returns
\* while the i-th endpoint is rendered
RECURSIVE AppendRoutes(_, _, _)
AppendRoutes(code, endpoints, nows) ==
    IF endpoints = <<>> THEN code
    ELSE AppendRoutes(code \o generate_mock_code(endpoints[1], nows[1]) \o (* "\n" *) <<10>>,
                      Tail(endpoints), Tail(nows))

generate_mock_server(endpoints, nows) ==
    AppendRoutes(server_preamble, endpoints, nows) \o server_epilogue

---------------------------------------------------------------------------
(* CodeCompletionAssistant                                                 *)

PYTHON_SNIPPETS_init ==
    << <<(* "fprint" *) <<102, 112, 114, 105, 110, 116>>,
         (* "print(f\"{text}\")" *) <<112, 114, 105, 110, 116, 40, 102, 34, 123, 116, 101, 120,
                 116, 125, 34, 41>> >>,
       <<(* "fmain" *) <<102, 109, 97, 105, 110>>,
         (* "\ndef main():\n    {cursor}\n\nif __name__ == \"__main__\":\n    main()\n" *) <<10,
                 100, 101, 102, 32, 109, 97, 105, 110, 40, 41, 58, 10, 32, 32, 32, 32, 123, 99,
                 117, 114, 115, 111, 114, 125, 10, 10, 105, 102, 32, 95, 95, 110, 97, 109, 101, 95,
                 95, 32, 61, 61, 32, 34, 95, 95, 109, 97, 105, 110, 95, 95, 34, 58, 10, 32, 32, 32,
                 32, 109, 97, 105, 110, 40, 41, 10>> >>,
       <<(* "fclass" *) <<102, 99, 108, 97, 115, 115>>,
         (* "\nclass {ClassName}:\n    '''{ClassName}'''\n\n    def __init__(self):\n        self.{cursor} = None\n\n    def {method}(self):\n        pass\n" *) <<10,
                 99, 108, 97, 115, 115, 32, 123, 67, 108, 97, 115, 115, 78, 97, 109, 101, 125, 58,
                 10, 32, 32, 32, 32, 39, 39, 39, 123, 67, 108, 97, 115, 115, 78, 97, 109, 101, 125,
                 39, 39, 39, 10, 10, 32, 32, 32, 32, 100, 101, 102, 32, 95, 95, 105, 110, 105, 116,
                 95, 95, 40, 115, 101, 108, 102, 41, 58, 10, 32, 32, 32, 32, 32, 32, 32, 32, 115,
                 101, 108, 102, 46, 123, 99, 117, 114, 115, 111, 114, 125, 32, 61, 32, 78, 111,
                 110, 101, 10, 10, 32, 32, 32, 32, 100, 101, 102, 32, 123, 109, 101, 116, 104, 111,
                 100, 125, 40, 115, 101, 108, 102, 41, 58, 10, 32, 32, 32, 32, 32, 32, 32, 32, 112,
                 97, 115, 115, 10>> >>,
       <<(* "ftry" *) <<102, 116, 114, 121>>,
         (* "\ntry:\n    {cursor}\nexcept {Exception}:\n    raise\nfinally:\n    pass\n" *) <<10,
                 116, 114, 121, 58, 10, 32, 32, 32, 32, 123, 99, 117, 114, 115, 111, 114, 125, 10,
                 101, 120, 99, 101, 112, 116, 32, 123, 69, 120, 99, 101, 112, 116, 105, 111, 110,
                 125, 58, 10, 32, 32, 32, 32, 114, 97, 105, 115, 101, 10, 102, 105, 110, 97, 108,
                 108, 121, 58, 10, 32, 32, 32, 32, 112, 97, 115, 115, 10>> >> >>

\* suggest_completion matching the triggers that start with the prefix
RECURSIVE SuggestionsReversed(_, _)
SuggestionsReversed(items, prefix) ==
    IF items = <<>> THEN <<>>
    ELSE (IF startswith(items[1][1], prefix) THEN <<items[1][2]>> ELSE <<>>)
         \o SuggestionsReversed(Tail(items), prefix)

suggest_completion_reversed(prefix, language) ==
    IF lower(language) = (* "python" *) <<112, 121, 116, 104, 111,
            110>> THEN SuggestionsReversed(PYTHON_SNIPPETS, prefix)
    ELSE <<>>

RECURSIVE Suggestions(_, _)
Suggestions(items, prefix) ==
    IF items = <<>> THEN <<>>
    ELSE (IF startswith(prefix, items[1][1]) THEN <<items[1][2]>> ELSE <<>>)
         \o Suggestions(Tail(items), prefix)

suggest_completion(prefix, language) ==
    IF lower(language) = (* "python" *) <<112, 121, 116, 104, 111,
            110>> THEN Suggestions(PYTHON_SNIPPETS, prefix)
    ELSE <<>>

generate_context_aware_suggestion(context) ==
    LET function_name == get(context, "function_name", <<>>)
        params == get(context, "parameters", <<>>)
    IN IF contains(function_name, (* "main" *) <<109, 97, 105, 110>>) THEN get(PYTHON_SNIPPETS,
            (* "fmain" *) <<102, 109, 97, 105, 110>>, None)
       ELSE IF contains(function_name, (* "class" *) <<99, 108, 97, 115, 115>>)
            THEN get(PYTHON_SNIPPETS, (* "fclass" *) <<102, 99, 108, 97, 115, 115>>, None)
       ELSE <<>>

---------------------------------------------------------------------------
(* AIAgentToolkit                                                          *)

\* the registry keyed by the attribute names of the facade
AIAgentToolkit_init_by_attribute ==
    << <<"token_optimizer", "TokenOptimizer">>,
       <<"multimodal_enhancer", "MultiModalEnhancer">>,
       <<"api_mock_generator", "APIMockGenerator">>,
       <<"code_completion_assistant", "CodeCompletionAssistant">> >>

\* the four tool instances, named by their classes, under their registry keys
AIAgentToolkit_init ==
    << <<"token_optimizer", "TokenOptimizer">>,
       <<"multimodal_enhancer", "MultiModalEnhancer">>,
       <<"api_mock_generator", "APIMockGenerator">>,
       <<"code_completion", "CodeCompletionAssistant">> >>

\* the methods each tool class defines
methods_of(tool) ==
    CASE tool = "TokenOptimizer" -> {"optimize_prompt", "estimate_tokens"}
      [] tool = "MultiModalEnhancer" ->
             {"detect_modality", "analyze_image", "extract_audio_features"}
      [] tool = "APIMockGenerator" ->
             {"parse_openapi", "generate_mock_code", "generate_mock_server"}
      [] tool = "CodeCompletionAssistant" ->
             {"suggest_completion", "generate_context_aware_suggestion"}

\* the data attributes each tool class or instance defines
data_attrs_of(tool) ==
    CASE tool = "TokenOptimizer" -> {"usage_stats"}
      [] tool = "MultiModalEnhancer" -> {"SUPPORTED_FORMATS"}
      [] tool = "APIMockGenerator" -> {"mock_templates"}
      [] tool = "CodeCompletionAssistant" -> {"PYTHON_SNIPPETS"}

\* hasattr(tool, name), for the names the classes of this file define; an
\* instance of these classes has no attribute __call__
hasattr(tool, name) == name \in methods_of(tool) \cup data_attrs_of(tool)

\* the numbers of positional arguments a method accepts
arities(method) == IF method = "suggest_completion" THEN {1, 2} ELSE {1}

Value(v) == [kind |-> "value", v |-> v]
Instance(tool) == [kind |-> "instance", v |-> tool]
Nothing == [kind |-> "none", v |-> None]

\* the body of the method, applied to the arguments
apply_method(method, args, nows) ==
    CASE method = "optimize_prompt" -> optimize_prompt(args[1])
      [] method = "estimate_tokens" -> estimate_tokens(args[1])
      [] method = "detect_modality" -> detect_modality(args[1])
      [] method = "analyze_image" -> analyze_image(args[1])
      [] method = "extract_audio_features" -> extract_audio_features(args[1])
      [] method = "parse_openapi" -> parse_openapi(args[1])
      [] method = "generate_mock_code" -> generate_mock_code(args[1], nows[1])
      [] method = "generate_mock_server" -> generate_mock_server(args[1], nows)
      [] method = "suggest_completion" ->
             suggest_completion(args[1], IF Len(args) = 2 THEN args[2] ELSE (* "python" *) <<112,
                     121, 116, 104, 111, 110>>)
      [] method = "generate_context_aware_suggestion" ->
             generate_context_aware_suggestion(args[1])

\* getattr(tool, method)(*args): calling a data attribute, or a method with
\* the wrong number of arguments, raises TypeError
call_attr(tool, method, args, nows) ==
    IF method \in data_attrs_of(tool) \/ Len(args) \notin arities(method)
    THEN [raised |-> "TypeError", message |-> None, ran |-> "none", result |-> Nothing]
    ELSE [raised |-> "none", message |-> None, ran |-> method,
          result |-> Value(apply_method(method, args, nows))]

\* use_tool resolving the tool by the attribute names of the facade
use_tool_by_attribute(tool_name, args, kwargs, nows) ==
    LET attributes == << <<"token_optimizer", "TokenOptimizer">>,
                         <<"multimodal_enhancer", "MultiModalEnhancer">>,
                         <<"api_mock_generator", "APIMockGenerator">>,
                         <<"code_completion_assistant", "CodeCompletionAssistant">> >>
    IN IF ~has_key(attributes, tool_name)
       THEN [raised |-> "ValueError",
             message |-> [tool_name |-> tool_name, available |-> keys(attributes)],
             ran |-> "none", result |-> Nothing]
       ELSE LET tool == get(attributes, tool_name, None)
                method == get(kwargs, "method", "__call__")
            IN IF hasattr(tool, method) THEN call_attr(tool, method, args, nows)
               ELSE [raised |-> "none", message |-> None, ran |-> "none",
                     result |-> Instance(tool)]

\* kwargs holds at most the keyword method
use_tool(tool_name, args, kwargs, nows) ==
    IF ~has_key(tools, tool_name)
    THEN [raised |-> "ValueError",
          message |-> [tool_name |-> tool_name, available |-> keys(tools)],
          ran |-> "none", result |-> Nothing]
    ELSE LET tool == get(tools, tool_name, None)
             method == get(kwargs, "method", "__call__")
         IN IF hasattr(tool, method) THEN call_attr(tool, method, args, nows)
            ELSE [raised |-> "none", message |-> None, ran |-> "none",
                  result |-> Instance(tool)]

\* the display names and descriptions are CJK texts; the float confidences
\* are kept as their literals
list_tools ==
    [total_tools |-> Len(tools),
     tools |-> << <<"token_optimizer",
                    [name |-> (* "Token\u4f18\u5316\u5668" *) <<84, 111, 107, 101, 110, 20248,
                            21270, 22120>>,
                     description |-> (* "\u4f18\u5316\u5bf9\u8bddtoken\u6d88\u8017\uff0c\u63d0\u5347\u6548\u7387" *) <<20248,
                             21270, 23545, 35805, 116, 111, 107, 101, 110, 28040, 32791, 65292,
                             25552, 21319, 25928, 29575>>,
                     confidence |-> "0.92"]>>,
                  <<"multimodal_enhancer",
                    [name |-> (* "\u591a\u6a21\u6001\u7406\u89e3\u589e\u5f3a" *) <<22810, 27169,
                            24577, 29702, 35299, 22686, 24378>>,
                     description |-> (* "\u589e\u5f3a\u56fe\u7247\u3001\u97f3\u9891\u3001\u89c6\u9891\u7406\u89e3\u80fd\u529b" *) <<22686,
                             24378, 22270, 29255, 12289, 38899, 39057, 12289, 35270, 39057, 29702,
                             35299, 33021, 21147>>,
                     confidence |-> "0.88"]>>,
                  <<"api_mock_generator",
                    [name |-> (* "API Mock\u670d\u52a1\u751f\u6210\u5668" *) <<65, 80, 73, 32, 77,
                            111, 99, 107, 26381, 21153, 29983, 25104, 22120>>,
                     description |-> (* "\u81ea\u52a8\u4eceOpenAPI\u89c4\u8303\u751f\u6210Mock\u670d\u52a1" *) <<33258,
                             21160, 20174, 79, 112, 101, 110, 65, 80, 73, 35268, 33539, 29983,
                             25104, 77, 111, 99, 107, 26381, 21153>>,
                     confidence |-> "0.87"]>>,
                  <<"code_completion",
                    [name |-> (* "\u4ee3\u7801\u8865\u5168\u52a9\u624b" *) <<20195, 30721, 34917,
                            20840, 21161, 25163>>,
                     description |-> (* "\u5b9e\u65f6\u4ee3\u7801\u8865\u5168\u548c\u5efa\u8bae\u5de5\u5177" *) <<23454,
                             26102, 20195, 30721, 34917, 20840, 21644, 24314, 35758, 24037, 20855>>,
                     confidence |-> "0.86"]>> >>]

---------------------------------------------------------------------------
(* The inputs the calls are made with.                                     *)

RECURSIVE SeqsUpTo(_, _)
SeqsUpTo(S, n) ==
    IF n = 0 THEN {<<>>}
    ELSE LET shorter == SeqsUpTo(S, n - 1)
         IN shorter \cup {Append(s, x) : s \in shorter, x \in S}

RECURSIVE Concat(_)
Concat(ss) == IF ss = <<>> THEN <<>> ELSE ss[1] \o Concat(Tail(ss))

Distinct(s) == \A i, j \in 1..Len(s) : i # j => s[i] # s[j]

\* whitespace, a letter, the three filler phrases and a character of two of them
Pieces ==
    {(* " " *) <<32>>, (* "\n" *) <<10>>, (* "a" *) <<97>>,
            (* "\u8bf7\u5e2e\u52a9\u6211" *) <<35831, 24110, 21161, 25105>>,
            (* "\u4f60\u80fd" *) <<20320, 33021>>, (* "\u6211\u9700\u8981" *) <<25105, 38656,
            35201>>, (* "\u6211" *) <<25105>>}

Texts == {Concat(ps) : ps \in SeqsUpTo(Pieces, MaxPieces)}

\* c CJK characters followed by o other characters
CountedTexts ==
    {[i \in 1..(c + o) |-> IF i <= c THEN 20320 ELSE 97] : c, o \in 0..MaxCount}

ExampleTexts == {(* "abcd" *) <<97, 98, 99, 100>>, (* "\u4f60\u597d" *) <<20320, 22909>>}

AllFormats == UNION {{fs[2][i] : i \in 1..Len(fs[2])} : fs \in
                        {SUPPORTED_FORMATS_init[k] : k \in 1..Len(SUPPORTED_FORMATS_init)}}

FileNames ==
    {(* "a." *) <<97, 46>> \o e : e \in AllFormats} \cup {(* "a." *) <<97,
            46>> \o upper(e) : e \in AllFormats}
    \cup {(* "photo.PNG" *) <<112, 104, 111, 116, 111, 46, 80, 78, 71>>, (* "archive.zip" *) <<97,
            114, 99, 104, 105, 118, 101, 46, 122, 105, 112>>, (* ".png" *) <<46, 112, 110, 103>>,
            (* "a." *) <<97, 46>>, (* "a.mp3.MOV" *) <<97, 46, 109, 112, 51, 46, 77, 79, 86>>,
            (* "" *) <<>>,
          (* "a..ogg" *) <<97, 46, 46, 111, 103, 103>>, (* "png" *) <<112, 110, 103>>}

PathNames == {(* "/users" *) <<47, 117, 115, 101, 114, 115>>, (* "/a/b" *) <<47, 97, 47, 98>>}

MethodKeys == {(* "get" *) <<103, 101, 116>>, (* "post" *) <<112, 111, 115, 116>>,
        (* "put" *) <<112, 117, 116>>, (* "delete" *) <<100, 101, 108, 101, 116, 101>>,
        (* "GET" *) <<71, 69, 84>>}

\* the operation object a document holds under a method key
OperationOf(k) ==
    CASE k = (* "get" *) <<103, 101, 116>> -> << <<"summary", (* "list users" *) <<108, 105, 115,
            116, 32, 117, 115, 101, 114, 115>>>> >>
      [] k = (* "post" *) <<112, 111, 115, 116>> -> <<>>
      [] k = (* "put" *) <<112, 117, 116>> ->
             << <<"responses", << <<(* "200" *) <<50, 48, 48>>, (* "ok" *) <<111, 107>>>> >> >>,
                     <<"summary", (* "s" *) <<115>>>> >>
      [] k = (* "delete" *) <<100, 101, 108, 101, 116, 101>> -> << <<"responses",
              << <<(* "204" *) <<50, 48, 52>>, (* "" *) <<>>>> >> >> >>
      [] k = (* "GET" *) <<71, 69, 84>> -> << <<"summary", (* "upper" *) <<117, 112, 112, 101,
              114>>>> >>

MethodMappings ==
    {[i \in 1..Len(ks) |-> <<ks[i], OperationOf(ks[i])>>] :
        ks \in {s \in SeqsUpTo(MethodKeys, MaxKeys) : Distinct(s)}}

PathMappings ==
    {[i \in 1..Len(ps) |-> <<ps[i], ms[i]>>] :
        ps \in {s \in SeqsUpTo(PathNames, Cardinality(PathNames)) : Distinct(s)},
        ms \in [1..Cardinality(PathNames) -> MethodMappings]}

Documents ==
    {<<>>, << <<"info", (* "v1" *) <<118, 49>>>> >>} \cup {<< <<"paths",
            pm>> >> : pm \in PathMappings}

Endpoints ==
    {[path |-> p, method |-> m, summary |-> s, responses |-> <<>>] :
        p \in PathNames, m \in {(* "GET" *) <<71, 69, 84>>, (* "POST" *) <<80, 79, 83, 84>>},
                s \in {(* "" *) <<>>, (* "list users" *) <<108, 105, 115, 116, 32, 117, 115, 101,
                114, 115>>}}

\* the readings of the wall clock, in the order of time
Clock ==
    << [year |-> 2026, month |-> 11, day |-> 3, hour |-> 4, minute |-> 32,
        second |-> 7, microsecond |-> 0],
       [year |-> 2026, month |-> 11, day |-> 3, hour |-> 4, minute |-> 32,
        second |-> 7, microsecond |-> 648489] >>

\* n successive readings of the clock
Readings(n) ==
    {[i \in 1..n |-> Clock[ix[i]]] :
        ix \in {f \in [1..n -> 1..Len(Clock)] : \A i, j \in 1..n : i <= j => f[i] <= f[j]}}

Triggers == {PYTHON_SNIPPETS_init[i][1] : i \in 1..Len(PYTHON_SNIPPETS_init)}

Prefixes ==
    UNION {{SubSeq(t, 1, n) \o s : n \in 0..Len(t), s \in {(* "" *) <<>>, (* "test" *) <<116, 101,
            115, 116>>, (* "f" *) <<102>>}} :
              t \in Triggers \cup {(* "xyz" *) <<120, 121, 122>>}}

Languages == {(* "python" *) <<112, 121, 116, 104, 111, 110>>, (* "Python" *) <<80, 121, 116, 104,
        111, 110>>, (* "PYTHON" *) <<80, 89, 84, 72, 79, 78>>, (* "java" *) <<106, 97, 118, 97>>,
        (* "" *) <<>>, (* "python3" *) <<112, 121, 116, 104, 111, 110, 51>>}

Contexts ==
    {<<>>, << <<"parameters", <<(* "x" *) <<120>>>> >> >>}
    \cup {<< <<"function_name", f>> >> :
             f \in {(* "" *) <<>>, (* "main" *) <<109, 97, 105, 110>>, (* "my_main" *) <<109, 121,
                     95, 109, 97, 105, 110>>, (* "class_main" *) <<99, 108, 97, 115, 115, 95, 109,
                     97, 105, 110>>, (* "MyClass" *) <<77, 121, 67, 108, 97, 115, 115>>,
                    (* "subclass" *) <<115, 117, 98, 99, 108, 97, 115, 115>>, (* "mai" *) <<109,
                            97, 105>>}}
    \cup {<< <<"function_name", (* "classify" *) <<99, 108, 97, 115, 115, 105, 102, 121>>>>,
            <<"parameters", <<(* "x" *) <<120>>>> >> >>}

ToolNames ==
    {AIAgentToolkit_init[i][1] : i \in 1..Len(AIAgentToolkit_init)}
    \cup {"nonexistent", "code_completion_assistant", "TokenOptimizer"}

AllTools == {AIAgentToolkit_init[i][2] : i \in 1..Len(AIAgentToolkit_init)}

Operations == UNION {methods_of(t) : t \in AllTools}

MethodNames ==
    Operations \cup UNION {data_attrs_of(t) : t \in AllTools}
    \cup {"no_such_method", "__call__"}

\* argument lists for a call through the facade: well-typed ones for an
\* operation, and lists of the wrong length
SampleArgs(method) ==
    {<<>>} \cup
    CASE method \in {"optimize_prompt", "estimate_tokens"} ->
             {<<(* "abcd" *) <<97, 98, 99, 100>>>>, <<(* "\u6211\u9700\u8981 a" *) <<25105, 38656,
                     35201, 32, 97>>>>, <<(* "a" *) <<97>>, (* "b" *) <<98>>>>}
      [] method \in {"detect_modality", "analyze_image", "extract_audio_features"} ->
             {<<(* "photo.PNG" *) <<112, 104, 111, 116, 111, 46, 80, 78, 71>>>>}
      [] method = "parse_openapi" ->
             {<< << <<"paths", << <<(* "/users" *) <<47, 117, 115, 101, 114, 115>>,
                      << <<(* "post" *) <<112, 111, 115, 116>>, <<>> >>, <<(* "get" *) <<103, 101,
                              116>>, <<>> >> >> >> >> >> >> >>}
      [] method = "generate_mock_code" ->
             {<<[path |-> (* "/users" *) <<47, 117, 115, 101, 114, 115>>,
                     method |-> (* "GET" *) <<71, 69, 84>>, summary |-> (* "" *) <<>>,
                 responses |-> <<>>]>>}
      [] method = "generate_mock_server" ->
             {<< <<[path |-> (* "/users" *) <<47, 117, 115, 101, 114, 115>>,
                     method |-> (* "GET" *) <<71, 69, 84>>, summary |-> (* "" *) <<>>,
                    responses |-> <<>>]>> >>}
      [] method = "suggest_completion" ->
             {<<(* "fmaintest" *) <<102, 109, 97, 105, 110, 116, 101, 115, 116>>>>,
                     <<(* "ftry" *) <<102, 116, 114, 121>>, (* "java" *) <<106, 97, 118, 97>>>>,
                     <<(* "ftry" *) <<102, 116, 114, 121>>, (* "Python" *) <<80, 121, 116, 104,
                     111, 110>>>>}
      [] method = "generate_context_aware_suggestion" ->
             {<< << <<"function_name", (* "main" *) <<109, 97, 105, 110>>>> >> >>}
      [] OTHER -> {<<(* "abcd" *) <<97, 98, 99, 100>>>>}

---------------------------------------------------------------------------
(* The state machine: the toolkit after construction, and one action per   *)
(* operation.                                                              *)

Init ==
    /\ usage_stats = TokenOptimizer_init
    /\ SUPPORTED_FORMATS = SUPPORTED_FORMATS_init
    /\ mock_templates = APIMockGenerator_init
    /\ PYTHON_SNIPPETS = PYTHON_SNIPPETS_init
    /\ tools = AIAgentToolkit_init
    /\ op = "idle"
    /\ call = <<>>
    /\ raised = "none"
    /\ ran = "none"
    /\ result = Nothing

Returns(o, c, v) ==
    /\ op' = o
    /\ call' = c
    /\ raised' = "none"
    /\ ran' = o
    /\ result' = Value(v)
    /\ UNCHANGED toolkit

OptimizePrompt ==
    /\ op = "idle"
    /\ \E prompt \in Texts :
           Returns("optimize_prompt", <<prompt>>, optimize_prompt(prompt))

\* estimate_tokens keeping the usage counters
EstimateTokensCounting ==
    /\ op = "idle"
    /\ \E text \in Texts \cup CountedTexts \cup ExampleTexts :
           /\ op' = "estimate_tokens"
           /\ call' = <<text>>
           /\ raised' = "none"
           /\ ran' = "estimate_tokens"
           /\ result' = Value(estimate_tokens(text))
           /\ usage_stats' =
                  [usage_stats EXCEPT !.total_calls = @ + 1,
                                      !.total_input_tokens = @ + Len(text)]
           /\ UNCHANGED <<SUPPORTED_FORMATS, mock_templates, PYTHON_SNIPPETS, tools>>

EstimateTokens ==
    /\ op = "idle"
    /\ \E text \in Texts \cup CountedTexts \cup ExampleTexts :
           Returns("estimate_tokens", <<text>>, estimate_tokens(text))

DetectModality ==
    /\ op = "idle"
    /\ \E file_path \in FileNames :
           Returns("detect_modality", <<file_path>>, detect_modality(file_path))

AnalyzeImage ==
    /\ op = "idle"
    /\ \E image_path \in FileNames :
           Returns("analyze_image", <<image_path>>, analyze_image(image_path))

ExtractAudioFeatures ==
    /\ op = "idle"
    /\ \E audio_path \in FileNames :
           Returns("extract_audio_features", <<audio_path>>,
                   extract_audio_features(audio_path))

ParseOpenapi ==
    /\ op = "idle"
    /\ \E openapi_spec \in Documents :
           Returns("parse_openapi", <<openapi_spec>>, parse_openapi(openapi_spec))

GenerateMockCode ==
    /\ op = "idle"
    /\ \E endpoint \in Endpoints, nows \in Readings(1) :
           Returns("generate_mock_code", <<endpoint, nows>>,
                   generate_mock_code(endpoint, nows[1]))

GenerateMockServer ==
    /\ op = "idle"
    /\ \E endpoints \in SeqsUpTo(Endpoints, MaxEndpoints) :
           \E nows \in Readings(Len(endpoints)) :
               Returns("generate_mock_server", <<endpoints, nows>>,
                       generate_mock_server(endpoints, nows))

SuggestCompletion ==
    /\ op = "idle"
    /\ \E prefix \in Prefixes, language \in Languages :
           Returns("suggest_completion", <<prefix, language>>,
                   suggest_completion(prefix, language))

GenerateContextAwareSuggestion ==
    /\ op = "idle"
    /\ \E context \in Contexts :
           Returns("generate_context_aware_suggestion", <<context>>,
                   generate_context_aware_suggestion(context))

ListTools ==
    /\ op = "idle"
    /\ Returns("list_tools", <<>>, list_tools)

\* use_tool(tool_name, method, *opargs), use_tool(tool_name, *opargs,
\* method=method) or use_tool(tool_name, *opargs)
UseTool ==
    \E tool_name \in ToolNames, style \in {"positional", "keyword", "bare"},
       method \in MethodNames :
        \E opargs \in SampleArgs(method), nows \in Readings(1) :
            LET args == IF style = "positional" THEN <<method>> \o opargs ELSE opargs
                kwargs == IF style = "keyword" THEN << <<"method", method>> >> ELSE <<>>
                out == use_tool(tool_name, args, kwargs, nows)
            IN /\ op = "idle"
               /\ style = "bare" => method = "__call__"
               /\ op' = "use_tool"
               /\ call' = [tool_name |-> tool_name, style |-> style,
                           method |-> method, opargs |-> opargs, nows |-> nows]
               /\ raised' = out.raised
               /\ ran' = out.ran
               /\ result' = IF out.raised = "ValueError" THEN Value(out.message)
                            ELSE out.result
               /\ UNCHANGED toolkit

\* the caller takes the outcome of the call; the next call can follow
Return ==
    /\ op # "idle"
    /\ op' = "idle"
    /\ call' = <<>>
    /\ raised' = "none"
    /\ ran' = "none"
    /\ result' = Nothing
    /\ UNCHANGED toolkit

Next ==
    \/ OptimizePrompt
    \/ EstimateTokens
    \/ DetectModality
    \/ AnalyzeImage
    \/ ExtractAudioFeatures
    \/ ParseOpenapi
    \/ GenerateMockCode
    \/ GenerateMockServer
    \/ SuggestCompletion
    \/ GenerateContextAwareSuggestion
    \/ ListTools
    \/ UseTool
    \/ Return

Spec == Init /\ [][Next]_vars

---------------------------------------------------------------------------
(* The claims.                                                             *)

\* the four registered tool names
RegisteredNames ==
    {"token_optimizer", "multimodal_enhancer", "api_mock_generator", "code_completion"}

\* the tool a registered name resolves to
ToolOf(name) == tools[CHOOSE i \in 1..Len(tools) : tools[i][1] = name][2]

\* C1: for a registered tool and the name of one of its operations, given as
\* the second positional argument with arguments the operation accepts,
\* use_tool calls the operation on the remaining arguments and returns its
\* result, not the tool instance.
C1_PositionalMethodIsCalled ==
    (/\ op = "use_tool"
     /\ call.style = "positional"
     /\ call.tool_name \in RegisteredNames
     /\ call.method \in methods_of(ToolOf(call.tool_name))
     /\ Len(call.opargs) \in arities(call.method))
    => /\ raised = "none"
       /\ ran = call.method
       /\ result.kind = "value"
       /\ result.v = apply_method(call.method, call.opargs, call.nows)

\* C2: use_tool raises the unknown-tool error exactly when the tool name is
\* not one of the four registered keys, whatever method and arguments are
\* passed; the message lists exactly the registered names, no operation is
\* run, and the registry and the tools' state are as constructed.
C2_UnknownToolIffUnregistered ==
    op = "use_tool" =>
        /\ (raised = "ValueError") <=> (call.tool_name \notin RegisteredNames)
        /\ raised = "ValueError" =>
               /\ result.v.tool_name = call.tool_name
               /\ Len(result.v.available) = 4
               /\ {result.v.available[i] : i \in 1..4} = RegisteredNames
               /\ ran = "none"
               /\ tools = AIAgentToolkit_init
               /\ usage_stats = TokenOptimizer_init
               /\ mock_templates = <<>>
               /\ SUPPORTED_FORMATS = SUPPORTED_FORMATS_init
               /\ PYTHON_SNIPPETS = PYTHON_SNIPPETS_init

C2_Witness ==
    /\ op = "use_tool"
    /\ raised = "ValueError"
    /\ call.tool_name = "code_completion_assistant"
    /\ call.style = "keyword"
    /\ call.method = "suggest_completion"
    /\ Len(call.opargs) = 1

\* C3: for a registered tool and a method name that names no operation of it
\* (absent, no attribute at all, or a data attribute), use_tool returns the
\* tool instance and raises nothing.
C3_NonOperationReturnsInstance ==
    (/\ op = "use_tool"
     /\ call.tool_name \in RegisteredNames
     /\ (call.style = "bare" \/ call.method \notin methods_of(ToolOf(call.tool_name))))
    => /\ raised = "none"
       /\ result.kind = "instance"
       /\ result.v = ToolOf(call.tool_name)

\* the recognised method keys in their fixed order, and their upper-case forms
C4_Lower == <<(* "get" *) <<103, 101, 116>>, (* "post" *) <<112, 111, 115, 116>>,
        (* "put" *) <<112, 117, 116>>, (* "delete" *) <<100, 101, 108, 101, 116, 101>>>>
C4_Upper == <<(* "GET" *) <<71, 69, 84>>, (* "POST" *) <<80, 79, 83, 84>>, (* "PUT" *) <<80, 85,
        84>>, (* "DELETE" *) <<68, 69, 76, 69, 84, 69>>>>

\* the value under key k of the mapping d, or default
C4_Field(d, k, default) ==
    IF \E j \in 1..Len(d) : d[j][1] = k
    THEN d[CHOOSE j \in 1..Len(d) : d[j][1] = k][2]
    ELSE default

\* C4: parse_openapi returns exactly one descriptor for each (path, method
\* key) pair whose key is one of get, post, put, delete in lower case, ordered
\* by the position of the path in the document and then by the fixed order of
\* the methods, each with the path, the upper-cased method, the summary
\* (default empty string) and the responses (default empty mapping); nothing
\* when paths is absent or empty.
C4_ParseDescriptors ==
    op = "parse_openapi" =>
        LET paths == C4_Field(call[1], "paths", <<>>)
            pairs == {q \in (1..Len(paths)) \X (1..4) :
                         \E j \in 1..Len(paths[q[1]][2]) :
                             paths[q[1]][2][j][1] = C4_Lower[q[2]]}
            rank(q) == Cardinality({p \in pairs :
                           p[1] < q[1] \/ (p[1] = q[1] /\ p[2] <= q[2])})
        IN /\ Len(result.v) = Cardinality(pairs)
           /\ \A q \in pairs :
                  LET operation == C4_Field(paths[q[1]][2], C4_Lower[q[2]], <<>>)
                  IN result.v[rank(q)] =
                         [path |-> paths[q[1]][1],
                          method |-> C4_Upper[q[2]],
                          summary |-> C4_Field(operation, "summary", <<>>),
                          responses |-> C4_Field(operation, "responses", <<>>)]

\* a document whose first path lists post before get and whose second path
\* holds the key GET beside delete
C4_Witness ==
    /\ op = "parse_openapi"
    /\ Len(call[1]) = 1
    /\ call[1][1][1] = "paths"
    /\ Len(call[1][1][2]) = 2
    /\ keys(call[1][1][2][1][2]) = <<(* "post" *) <<112, 111, 115, 116>>, (* "get" *) <<103, 101,
            116>>>>
    /\ keys(call[1][1][2][2][2]) = <<(* "GET" *) <<71, 69, 84>>, (* "delete" *) <<100, 101, 108,
            101, 116, 101>>>>
    /\ Len(result.v) = 3
    /\ result.v[1].method = (* "GET" *) <<71, 69, 84>>
    /\ result.v[3].method = (* "DELETE" *) <<68, 69, 76, 69, 84, 69>>

\* the positions where the text of a route's @app.route line starts
C5_RouteStarts(text) ==
    {p \in 1..Len(text) : startswith(SubSeq(text, p, Len(text)), (* "@app.route" *) <<64, 97, 112,
            112, 46, 114, 111, 117, 116, 101>>)}

\* the number of line breaks that end right before position p
RECURSIVE C5_BreaksBefore(_, _)
C5_BreaksBefore(text, p) ==
    IF p > 1 /\ text[p - 1] = 10 THEN 1 + C5_BreaksBefore(text, p - 1) ELSE 0

\* the empty lines between position p and the line before it
C5_EmptyLinesBefore(text, p) == C5_BreaksBefore(text, p) - 1

\* C5 as amended: generate_mock_server returns the preamble, then for every
\* endpoint in order its route text followed by one line break, then the
\* epilogue; as a route text begins and ends with a line break, exactly two
\* empty lines stand before every @app.route line and before the epilogue's
\* first line; for no endpoints the result is preamble followed by epilogue.
C5_RoutesFollowedByLineBreak ==
    op = "generate_mock_server" =>
        LET endpoints == call[1]
            nows == call[2]
            code == result.v
            routes == [i \in 1..Len(endpoints) |->
                          generate_mock_code(endpoints[i], nows[i]) \o <<10>>]
            starts == C5_RouteStarts(code)
        IN /\ code = server_preamble \o Concat(routes) \o server_epilogue
           /\ endpoints = <<>> => code = server_preamble \o server_epilogue
           /\ Cardinality(starts) = Len(endpoints)
           /\ \A p \in starts : C5_EmptyLinesBefore(code, p) = 2
           /\ C5_EmptyLinesBefore(code, Len(code) - Len(server_epilogue) + 2) = 2

C5_Witness ==
    /\ op = "generate_mock_server"
    /\ Len(call[1]) = 2
    /\ call[1][1] # call[1][2]
    /\ call[2][1] # call[2][2]
    /\ Cardinality(C5_RouteStarts(result.v)) = 2

\* C5 as claimed: exactly one empty line stands between the last line of one
\* route handler and the @app.route line of the next.
C5_OneEmptyLineBetweenRoutes ==
    op = "generate_mock_server" =>
        LET starts == C5_RouteStarts(result.v)
        IN \A p \in starts :
               (\E q \in starts : q < p) => C5_EmptyLinesBefore(result.v, p) = 1

C7_Triggers == <<(* "fprint" *) <<102, 112, 114, 105, 110, 116>>, (* "fmain" *) <<102, 109, 97,
        105, 110>>, (* "fclass" *) <<102, 99, 108, 97, 115, 115>>, (* "ftry" *) <<102, 116, 114,
        121>>>>

\* C7: suggest_completion returns, when the language is "python" in any
\* letter case, exactly the bodies of the snippets whose trigger the prefix
\* starts with, in the order fprint, fmain, fclass, ftry, and nothing for any
\* other language.
C7_SuggestByTrigger ==
    op = "suggest_completion" =>
        LET prefix == call[1]
            language == call[2]
            isPython == /\ Len(language) = 6
                        /\ \A i \in 1..6 :
                               language[i] \in {(* "python" *) <<112, 121, 116, 104, 111, 110>>[i],
                                       (* "PYTHON" *) <<80, 89, 84, 72, 79, 78>>[i]}
            matched == {k \in 1..4 :
                           /\ Len(C7_Triggers[k]) <= Len(prefix)
                           /\ \A i \in 1..Len(C7_Triggers[k]) :
                                  prefix[i] = C7_Triggers[k][i]}
            rank(k) == Cardinality({j \in matched : j <= k})
        IN IF isPython
           THEN /\ Len(result.v) = Cardinality(matched)
                /\ \A k \in matched :
                       /\ PYTHON_SNIPPETS_init[k][1] = C7_Triggers[k]
                       /\ result.v[rank(k)] = PYTHON_SNIPPETS_init[k][2]
           ELSE result.v = <<>>

C7_Witness ==
    /\ op = "suggest_completion"
    /\ call = <<(* "fmaintest" *) <<102, 109, 97, 105, 110, 116, 101, 115, 116>>,
            (* "Python" *) <<80, 121, 116, 104, 111, 110>>>>
    /\ Len(result.v) = 1
    /\ startswith(result.v[1], (* "\ndef main():" *) <<10, 100, 101, 102, 32, 109, 97, 105, 110,
            40, 41, 58>>)

\* C8: in every reachable state list_tools reports 4 tools, the keys of its
\* catalog are exactly the tool names use_tool accepts without the
\* unknown-tool error, and a list_tools call returned what the next one does.
C8_CatalogMatchesRegistry ==
    /\ list_tools.total_tools = 4
    /\ {list_tools.tools[i][1] : i \in 1..Len(list_tools.tools)}
           = {n \in ToolNames : use_tool(n, <<>>, <<>>, <<>>).raised # "ValueError"}
    /\ op = "list_tools" =>
           /\ result.v = list_tools
           /\ result.v.total_tools = 4
           /\ {result.v.tools[i][1] : i \in 1..Len(result.v.tools)} = RegisteredNames

C8_Witness ==
    /\ op = "list_tools"
    /\ result.v.total_tools = 4
    /\ Len(result.v.tools) = 4

\* C9: after any sequence of tool operations, run directly or through
\* use_tool and failing ones included, the three usage counters are 0 and the
\* registry, the extension table and the snippet table are as constructed.
C9_OperationsLeaveStateUnchanged ==
    /\ usage_stats.total_input_tokens = 0
    /\ usage_stats.total_output_tokens = 0
    /\ usage_stats.total_calls = 0
    /\ tools = AIAgentToolkit_init
    /\ SUPPORTED_FORMATS = SUPPORTED_FORMATS_init
    /\ PYTHON_SNIPPETS = PYTHON_SNIPPETS_init

C9_Witness ==
    /\ op = "estimate_tokens"
    /\ call[1] = (* "\u6211\u9700\u8981 a" *) <<25105, 38656, 35201, 32, 97>>
    /\ result.v > 0
    /\ usage_stats.total_calls = 0

\* C10: the result of optimize_prompt has no leading or trailing whitespace
\* and no two consecutive whitespace characters.
C10_NoRedundantWhitespace ==
    op = "optimize_prompt" =>
        LET optimized == result.v
        IN /\ optimized # <<>> =>
                  ~IsSpace(optimized[1]) /\ ~IsSpace(optimized[Len(optimized)])
           /\ \A i \in 1..(Len(optimized) - 1) :
                  ~(IsSpace(optimized[i]) /\ IsSpace(optimized[i + 1]))

====
